---- MODULE Spec2Model ----
(***************************************************************************)
(* A model of the earning-tracker backend: the REST handlers of the notes, *)
(* login and daily-earnings endpoints over the relational store, in each   *)
(* of the revisions the repository keeps.                                  *)
(*                                                                         *)
(* The store's tables are sets of rows.  A handler that issues one store   *)
(* statement is one action; a handler that issues two (an existence or     *)
(* ownership check, then a write) is two actions with the handler's local  *)
(* state kept in req[p] between them, so that handlers of different        *)
(* clients interleave between statements as the runtime lets them.         *)
(***************************************************************************)
EXTENDS Integers, Sequences, FiniteSets, TLC

VARIABLES
    notes,            \* the notes table
    nextId,           \* the store's generator of notes.id
    users,            \* the users table
    daily_earnings,   \* the daily_earnings table
    nextEarningId,    \* the store's generator of daily_earnings.id
    tz,               \* the server's offset from UTC, in minutes
    req,              \* req[p]: the handler client p has in flight
    resp,             \* the last response the server sent
    savedNote,        \* history: per date, the text of the last successful save
    lastPost,         \* history: per (user, date), the last successful POST
    app,              \* which of the repository's servers is running
    pool,             \* the number of pool connections that are checked out
    failed            \* history: the store statement of the last step failed

earningsVars == <<daily_earnings, nextEarningId, lastPost>>

vars == <<notes, nextId, savedNote, users, earningsVars, tz, req, resp, app, pool, failed>>

(***************************************************************************)
(* Bounds of the model.                                                    *)
(***************************************************************************)
MaxLen == 2
MaxId == 2
MaxEarnings == 2

Procs == {1, 2}

(***************************************************************************)
(* JavaScript values.  A text is a sequence of characters; a body field    *)
(* that is absent is Undefined, one that is JSON null is JsNull.           *)
(***************************************************************************)
Chars == {" ", "a"}
Undefined == <<"undefined">>
JsNull == <<"null">>
Empty == <<>>

Texts == UNION {[1..n -> Chars] : n \in 0..MaxLen}

IsString(v) == v \notin {Undefined, JsNull}

\* a test that lets every value through
NothingIsFalsy(v) == FALSE

\* !v for a body field that is a string, undefined or null
Falsy(v) == v \in {Undefined, JsNull, Empty}

RECURSIVE TrimStart(_)
TrimStart(s) ==
    IF s = Empty THEN Empty
    ELSE IF Head(s) = " " THEN TrimStart(Tail(s))
    ELSE s

RECURSIVE TrimEnd(_)
TrimEnd(s) ==
    IF s = Empty THEN Empty
    ELSE IF s[Len(s)] = " " THEN TrimEnd(SubSeq(s, 1, Len(s) - 1))
    ELSE s

\* String.prototype.trim
Trim(s) == TrimEnd(TrimStart(s))

\* the (user, date) pairs of the daily-earnings requests, and the history's
\* mark of a pair no POST has succeeded for
EarnUsers == {1, 2}
EarnDates == {<<2024, 12, 21>>, <<2025, 1, 20>>}
EarnKeys == EarnUsers \X EarnDates
NoPost == [none |-> TRUE]

NoResp == [op |-> "none"]
Idle == [pc |-> "idle"]

Msg(m) == [message |-> m]

\* res.status(...).json(...) of the handler serving client p
Sent(p, r) == [proc |-> p] @@ r

(***************************************************************************)
(* The date-keyed notes revisions (src/server.js lines 1-108 and           *)
(* src/unnamed/part_003 lines 1-156).  A row is [date_key, note_content];  *)
(* date_key carries the uniqueness constraint that ON CONFLICT names.      *)
(***************************************************************************)
NoDate == <<>>
NoteDates == {<<2025, 6, 1>>, <<2025, 7, 1>>}
NoParam == 0
QueryYears == {NoParam, 2025, 2026}
QueryMonths == {NoParam, 6, 7}
NoNote == <<"no note">>
Cleared == <<"cleared by an empty save">>

\* DELETE FROM notes WHERE date_key = $1
DeleteByDate(rows, date) == {r \in rows : r.date_key # date}

\* INSERT INTO notes (date_key, note_content) VALUES ($1, $2)
\*   ON CONFLICT (date_key) DO UPDATE SET note_content = $2
UpsertNoteTrimmed(rows, date, text) ==
    IF \E r \in rows : r.date_key = date
    THEN {IF r.date_key = date THEN [r EXCEPT !.note_content = Trim(text)] ELSE r : r \in rows}
    ELSE rows \cup {[date_key |-> date, note_content |-> Trim(text)]}

InsertNote(rows, date, text) ==
    rows \cup {[date_key |-> date, note_content |-> text]}

UpsertNote(rows, date, text) ==
    IF \E r \in rows : r.date_key = date
    THEN {IF r.date_key = date THEN [r EXCEPT !.note_content = text] ELSE r : r \in rows}
    ELSE rows \cup {[date_key |-> date, note_content |-> text]}

\* SELECT date_key, note_content FROM notes
\*   WHERE EXTRACT(YEAR FROM date_key::date) = $1 AND EXTRACT(MONTH FROM date_key::date) = $2
SelectNotesOfMonth(rows, year, month) ==
    {r \in rows : r.date_key[1] = year /\ r.date_key[2] = month}

\* result.rows.reduce((acc, row) => { acc[row.date_key] = row.note_content; ... }, {})
\* (a later row of the same key overwrites an earlier one: any of them may win)
NotesMaps(rows) ==
    {f \in [{r.date_key : r \in rows} -> {r.note_content : r \in rows}] :
        \A d \in DOMAIN f : \E r \in rows : r.date_key = d /\ r.note_content = f[d]}

\* result.rows.map(row => ({date: row.date_key, text: row.note_content}))
\* (the array as the set of its entries: the query states no order)
NotesArray(rows) == {[date |-> r.date_key, text |-> r.note_content] : r \in rows}

\* app.get('/api/notes') of src/server.js
GetNotesOfMonth(p, year, month) ==
    /\ IF year = NoParam \/ month = NoParam
       THEN /\ resp' = Sent(p, [op |-> "getNotesOfMonth", year |-> year, month |-> month,
                      status |-> 400, body |-> Msg("Missing year or month parameter")])
            /\ failed' = FALSE
       ELSE \E ok \in BOOLEAN :
         /\ failed' = ~ok
         /\ IF ok
            THEN \E m \in NotesMaps(SelectNotesOfMonth(notes, year, month)) :
                 resp' = Sent(p, [op |-> "getNotesOfMonth", year |-> year, month |-> month,
                     status |-> 200, body |-> m])
            ELSE resp' = Sent(p, [op |-> "getNotesOfMonth", year |-> year, month |-> month,
                     status |-> 500, body |-> Msg("Internal server error")])
    /\ UNCHANGED <<notes, nextId, users, tz, app, pool, req, savedNote, earningsVars>>

\* app.get('/api/notes') of src/unnamed/part_003
GetAllNotes(p) ==
    /\ \E ok \in BOOLEAN :
         /\ failed' = ~ok
         /\ IF ok
            THEN resp' = Sent(p, [op |-> "getAllNotes", status |-> 200, body |-> NotesArray(notes)])
            ELSE resp' = Sent(p, [op |-> "getAllNotes", status |-> 500,
                     body |-> Msg("Internal server error")])
    /\ UNCHANGED <<notes, nextId, users, tz, app, pool, req, savedNote, earningsVars>>

\* app.post('/api/notes') of src/server.js and of src/unnamed/part_003
PostNote(p, date, text) ==
    LET R(status, m) == [op |-> "postNote", date |-> date, text |-> text,
                         status |-> status, body |-> Msg(m)]
    IN
    /\ IF date = NoDate \/ text = Undefined
       THEN /\ resp' = Sent(p, R(400, "Missing date or text"))
            /\ UNCHANGED <<notes, savedNote>>
            /\ failed' = FALSE
       ELSE IF ~IsString(text)
       THEN \* text.trim is not a function: the TypeError is caught
            /\ resp' = Sent(p, R(500, "Internal server error"))
            /\ UNCHANGED <<notes, savedNote>>
            /\ failed' = FALSE
       ELSE \E ok \in BOOLEAN :
         /\ failed' = ~ok
         /\ IF ~ok
            THEN /\ resp' = Sent(p, R(500, "Internal server error"))
                 /\ UNCHANGED <<notes, savedNote>>
            ELSE IF Trim(text) = Empty
            THEN /\ notes' = DeleteByDate(notes, date)
                 /\ savedNote' = [savedNote EXCEPT ![date] =
                        IF @ \in {NoNote, Cleared} THEN @ ELSE Cleared]
                 /\ resp' = Sent(p, R(200, "Note deleted successfully"))
            ELSE /\ notes' = UpsertNote(notes, date, text)
                 /\ savedNote' = [savedNote EXCEPT ![date] = text]
                 /\ resp' = Sent(p, R(200, "Note saved successfully"))
    /\ UNCHANGED <<nextId, users, tz, app, pool, req, earningsVars>>

\* app.delete('/api/notes/:date_key') of src/server.js and of src/unnamed/part_003
DeleteNoteByDate(p, date) ==
    LET R(status, m) == [op |-> "deleteNoteByDate", date |-> date,
                         status |-> status, body |-> Msg(m)]
    IN
    /\ \E ok \in BOOLEAN :
         /\ failed' = ~ok
         /\ IF ok
            THEN /\ notes' = DeleteByDate(notes, date)
                 /\ savedNote' = [savedNote EXCEPT ![date] = NoNote]
                 /\ resp' = Sent(p, R(200, "Note deleted successfully"))
            ELSE /\ resp' = Sent(p, R(500, "Internal server error"))
                 /\ UNCHANGED <<notes, savedNote>>
    /\ UNCHANGED <<nextId, users, tz, app, pool, req, earningsVars>>

InitCommon ==
    /\ notes = {}
    /\ nextId = 1
    /\ users = {}
    /\ daily_earnings = {}
    /\ nextEarningId = 1
    /\ tz = 0
    /\ req = [p \in Procs |-> Idle]
    /\ resp = NoResp
    /\ savedNote = [d \in NoteDates |-> NoNote]
    /\ lastPost = [k \in EarnKeys |-> NoPost]
    /\ pool = 0
    /\ failed = FALSE

InitNotesByDate == InitCommon /\ app = "notes by date"

NextNotesByDate ==
    \/ \E y \in QueryYears, m \in QueryMonths : GetNotesOfMonth(1, y, m)
    \/ GetAllNotes(1)
    \/ \E d \in NoteDates \cup {NoDate}, t \in Texts \cup {Undefined, JsNull} : PostNote(1, d, t)
    \/ \E d \in NoteDates : DeleteNoteByDate(1, d)

SpecNotesByDate == InitNotesByDate /\ [][NextNotesByDate]_vars

HasNote(d) == savedNote[d] \notin {NoNote, Cleared}

(***************************************************************************)
(* C2: in the date-keyed revisions, a successful GET /api/notes that       *)
(* covers a date returns, for that date, exactly the text of the last      *)
(* successful save with non-empty trimmed text (untrimmed, as submitted),  *)
(* and no entry for a date whose note was removed by a save with empty or  *)
(* whitespace-only text (or never saved, or deleted).                      *)
(***************************************************************************)
C2_SaveThenFetch ==
    /\ (resp.op = "getNotesOfMonth" /\ resp.status = 200) =>
          \A d \in NoteDates :
            (d[1] = resp.year /\ d[2] = resp.month) =>
               IF HasNote(d)
               THEN d \in DOMAIN resp.body /\ resp.body[d] = savedNote[d]
               ELSE d \notin DOMAIN resp.body
    /\ (resp.op = "getAllNotes" /\ resp.status = 200) =>
          \A d \in NoteDates :
            {e \in resp.body : e.date = d} =
               IF HasNote(d) THEN {[date |-> d, text |-> savedNote[d]]} ELSE {}
    /\ (resp.op = "postNote" /\ resp.status = 200) =>
          {e \in NotesArray(notes) : e.date = resp.date} =
             IF Trim(resp.text) # Empty
             THEN {[date |-> resp.date, text |-> resp.text]}
             ELSE {}

\* a fetch that returns a text with surrounding blanks exactly as saved, and
\* omits a date whose note an empty save removed
C2_Witness ==
    /\ resp.op = "getAllNotes"
    /\ resp.status = 200
    /\ savedNote[<<2025, 6, 1>>] = <<" ", "a">>
    /\ [date |-> <<2025, 6, 1>>, text |-> <<" ", "a">>] \in resp.body
    /\ savedNote[<<2025, 7, 1>>] = Cleared
    /\ \A e \in resp.body : e.date # <<2025, 7, 1>>

\* The requests of concurrent clients.  Each handler of these revisions issues
\* one store statement, so handlers that overlap in time differ only in the
\* order in which the store runs their statements.
NextNotesByDateConcurrent ==
    \E p \in Procs :
       \/ \E y \in QueryYears, m \in QueryMonths : GetNotesOfMonth(p, y, m)
       \/ GetAllNotes(p)
       \/ \E d \in NoteDates \cup {NoDate}, t \in Texts \cup {Undefined, JsNull} :
             PostNote(p, d, t)
       \/ \E d \in NoteDates : DeleteNoteByDate(p, d)

SpecNotesByDateConcurrent == InitNotesByDate /\ [][NextNotesByDateConcurrent]_vars

(***************************************************************************)
(* C11: in the date-keyed revisions, whatever the order in which the       *)
(* store runs the statements of concurrent POST /api/notes and             *)
(* DELETE /api/notes/:date_key requests, the notes table holds at most one *)
(* row per date_key.                                                       *)
(***************************************************************************)
C11_OneRowPerDateKey ==
    \A d \in NoteDates : Cardinality({r \in notes : r.date_key = d}) <= 1

\* the second client's save of a date that holds another text, next to a date
\* that was saved and cleared
C11_Witness ==
    /\ resp.op = "postNote" /\ resp.proc = 2 /\ resp.status = 200
    /\ resp.date = <<2025, 6, 1>> /\ resp.text = <<"a">>
    /\ notes = {[date_key |-> <<2025, 6, 1>>, note_content |-> <<"a">>]}
    /\ savedNote[<<2025, 7, 1>>] = Cleared

(***************************************************************************)
(* C13: in the date-keyed revisions, a POST /api/notes whose text is       *)
(* present but not a string (null, a number) is answered 400, not 500, and *)
(* leaves the store unchanged.                                             *)
(***************************************************************************)
C13_MalformedTextRejected ==
    [][(resp' # resp /\ resp'.op = "postNote"
        /\ resp'.date # NoDate /\ resp'.text # Undefined /\ ~IsString(resp'.text))
       => (resp'.status = 400 /\ notes' = notes)]_vars

(***************************************************************************)
(* The id-keyed, ownership-aware notes revision (src/unnamed/part_000).    *)
(* A row is [id, date_key, note_content, user_name]; id is generated by    *)
(* the store (DEFAULT gen_random_uuid()), and no column but id is unique.  *)
(***************************************************************************)
IdDates == {<<2025, 6, 1>>}
IdTexts == {t \in Texts : Len(t) <= 1}
UserNames == {<<"alice">>, <<"bob">>}
NoteIds == 1..MaxId

\* a < b for calendar dates <<year, month, day>>
DateLess(a, b) ==
    \/ a[1] < b[1]
    \/ a[1] = b[1] /\ a[2] < b[2]
    \/ a[1] = b[1] /\ a[2] = b[2] /\ a[3] < b[3]

DateLeq(a, b) == a = b \/ DateLess(a, b)

\* the id the store generates for a new notes row: never one it gave before
CountNoteId == Cardinality(notes) + 1

SmallestFreeNoteId ==
    CHOOSE i \in 1..(Cardinality(notes) + 1) :
        /\ \A r \in notes : r.id # i
        /\ \A j \in 1..(i - 1) : \E r \in notes : r.id = j

NewNoteId == nextId

\* RETURNING id, date_key AS date, note_content AS text, user_name
Returning(r) ==
    [id |-> r.id, date |-> r.date_key, text |-> r.note_content, user_name |-> r.user_name]

\* ORDER BY date_key, id
RECURSIVE OrderByDateId(_)
OrderByDateId(rows) ==
    IF rows = {} THEN <<>>
    ELSE LET first == CHOOSE r \in rows : \A q \in rows :
                        \/ DateLess(r.date_key, q.date_key)
                        \/ r.date_key = q.date_key /\ r.id <= q.id
         IN <<Returning(first)>> \o OrderByDateId(rows \ {first})

\* UPDATE notes SET note_content = $1 WHERE id = $2
UpdateOrInsertContent(rows, id, text) ==
    IF \E r \in rows : r.id = id
    THEN {IF r.id = id THEN [r EXCEPT !.note_content = text] ELSE r : r \in rows}
    ELSE rows \cup {[id |-> id, date_key |-> NoDate, note_content |-> text,
                     user_name |-> Undefined]}

UpdateContentNoWhere(rows, id, text) ==
    {[r EXCEPT !.note_content = text] : r \in rows}

UpdateContent(rows, id, text) ==
    {IF r.id = id THEN [r EXCEPT !.note_content = text] ELSE r : r \in rows}

\* checkOwnership.rows[0].user_name !== user_name
AnyoneIsOwner(stored, given) == FALSE

NotOwner(stored, given) == stored # given

\* app.get('/api/notes')
GetNotesById(p) ==
    /\ req[p] = Idle
    /\ \E ok \in BOOLEAN :
      /\ failed' = ~ok
      /\ resp' = Sent(p, IF ok
            THEN [op |-> "getNotesById", status |-> 200, body |-> OrderByDateId(notes)]
            ELSE [op |-> "getNotesById", status |-> 500, body |-> Msg("Internal Server Error")])
    /\ UNCHANGED <<notes, nextId, users, tz, app, pool, req, savedNote, earningsVars>>

\* app.post('/api/notes')
PostNoteById(p, date, text, user_name) ==
    LET R(status, b) == [op |-> "postNoteById", status |-> status, body |-> b]
        row == [id |-> NewNoteId, date_key |-> date, note_content |-> text,
                user_name |-> user_name]
    IN
    /\ req[p] = Idle
    /\ NewNoteId <= MaxId
    /\ IF date = NoDate \/ Falsy(text) \/ Falsy(user_name)
       THEN /\ resp' = Sent(p, R(400, Msg("Date, text, and user_name are required.")))
            /\ UNCHANGED <<notes, nextId>>
            /\ failed' = FALSE
       ELSE \E ok \in BOOLEAN :
         /\ failed' = ~ok
         /\ IF ok
            THEN /\ notes' = notes \cup {row}
                 /\ nextId' = nextId + 1
                 /\ resp' = Sent(p, R(201, Returning(row)))
            ELSE /\ resp' = Sent(p, R(500, Msg("Internal Server Error")))
                 /\ UNCHANGED <<notes, nextId>>
    /\ UNCHANGED <<users, tz, app, pool, req, savedNote, earningsVars>>

\* a response to PUT, with the :id and the body of the request it answers
PutResp(id, text, user_name, status, b) ==
    [op |-> "putNote", id |-> id, text |-> text, user_name |-> user_name,
     status |-> status, body |-> b]

\* app.put('/api/notes/:id'), up to the ownership check
PutNoteCheck(p, id, text, user_name) ==
    LET R(status, m) == PutResp(id, text, user_name, status, Msg(m))
        found == {r \in notes : r.id = id}
    IN
    /\ req[p] = Idle
    /\ IF Falsy(text) \/ Falsy(user_name)
       THEN /\ resp' = Sent(p, R(400, "Text and user_name are required for update."))
            /\ UNCHANGED req
            /\ failed' = FALSE
       ELSE \E ok \in BOOLEAN :
         /\ failed' = ~ok
         /\ IF ~ok
            THEN /\ resp' = Sent(p, R(500, "Internal Server Error"))
                 /\ UNCHANGED req
            ELSE IF found = {}
            THEN /\ resp' = Sent(p, R(404, "Note not found."))
                 /\ UNCHANGED req
            ELSE IF \E r \in found : NotOwner(r.user_name, user_name)
            THEN /\ resp' = Sent(p, R(403, "Forbidden: You do not own this note."))
                 /\ UNCHANGED req
            ELSE /\ req' = [req EXCEPT ![p] =
                            [pc |-> "putUpdate", id |-> id, text |-> text,
                             user_name |-> user_name]]
                 /\ UNCHANGED resp
    /\ UNCHANGED <<notes, nextId, users, tz, app, pool, savedNote, earningsVars>>

\* history: the response was sent after the handler's second statement
AfterWrite(r) == [statement |-> 2] @@ r

\* app.put('/api/notes/:id'), the UPDATE and the response
PutNoteUpdate(p) ==
    LET id == req[p].id
        text == req[p].text
        user_name == req[p].user_name
        after == UpdateContent(notes, id, text)
    IN
    /\ req[p].pc = "putUpdate"
    /\ req' = [req EXCEPT ![p] = Idle]
    /\ \E ok \in BOOLEAN :
      /\ failed' = ~ok
      /\ IF ~ok
         THEN /\ resp' = Sent(p, AfterWrite(PutResp(id, text, user_name, 500,
                                                     Msg("Internal Server Error"))))
              /\ UNCHANGED notes
         ELSE /\ notes' = after
              /\ resp' = Sent(p, AfterWrite(IF \E r \in notes : r.id = id
                    THEN PutResp(id, text, user_name, 200,
                                 Returning(CHOOSE r \in after : r.id = id))
                    ELSE PutResp(id, text, user_name, 404, Msg("Note not found."))))
    /\ UNCHANGED <<nextId, users, tz, app, pool, savedNote, earningsVars>>

\* a response to DELETE, with the :id and the user_name of the request it answers
DeleteResp(id, user_name, status, m) ==
    [op |-> "deleteNote", id |-> id, user_name |-> user_name,
     status |-> status, body |-> Msg(m)]

\* app.delete('/api/notes/:id'), up to the ownership check
DeleteNoteCheck(p, id, user_name) ==
    LET R(status, m) == DeleteResp(id, user_name, status, m)
        found == {r \in notes : r.id = id}
    IN
    /\ req[p] = Idle
    /\ IF Falsy(user_name)
       THEN /\ resp' = Sent(p, R(400, "User name is required for deletion."))
            /\ UNCHANGED req
            /\ failed' = FALSE
       ELSE \E ok \in BOOLEAN :
         /\ failed' = ~ok
         /\ IF ~ok
            THEN /\ resp' = Sent(p, R(500, "Internal Server Error"))
                 /\ UNCHANGED req
            ELSE IF found = {}
            THEN /\ resp' = Sent(p, R(404, "Note not found."))
                 /\ UNCHANGED req
            ELSE IF \E r \in found : NotOwner(r.user_name, user_name)
            THEN /\ resp' = Sent(p, R(403, "Forbidden: You do not own this note."))
                 /\ UNCHANGED req
            ELSE /\ req' = [req EXCEPT ![p] =
                            [pc |-> "deleteRow", id |-> id, user_name |-> user_name]]
                 /\ UNCHANGED resp
    /\ UNCHANGED <<notes, nextId, users, tz, app, pool, savedNote, earningsVars>>

\* app.delete('/api/notes/:id'), the DELETE and the response
DeleteNoteRow(p) ==
    LET id == req[p].id
        user_name == req[p].user_name
    IN
    /\ req[p].pc = "deleteRow"
    /\ req' = [req EXCEPT ![p] = Idle]
    /\ \E ok \in BOOLEAN :
      /\ failed' = ~ok
      /\ IF ~ok
         THEN /\ resp' = Sent(p, AfterWrite(DeleteResp(id, user_name, 500,
                                                        "Internal Server Error")))
              /\ UNCHANGED notes
         ELSE /\ notes' = {r \in notes : r.id # id}
              /\ resp' = Sent(p, AfterWrite(IF \E r \in notes : r.id = id
                    THEN DeleteResp(id, user_name, 200, "Note deleted successfully.")
                    ELSE DeleteResp(id, user_name, 404, "Note not found.")))
    /\ UNCHANGED <<nextId, users, tz, app, pool, savedNote, earningsVars>>

InitNotesById == InitCommon /\ app = "notes by id"

\* the requests of one client, each answered before the next is sent
NextNotesById ==
    \/ GetNotesById(1)
    \/ \E d \in IdDates \cup {NoDate}, t \in IdTexts \cup {Undefined},
          u \in UserNames \cup {Undefined} : PostNoteById(1, d, t, u)
    \/ \E id \in NoteIds, t \in IdTexts \cup {Undefined},
          u \in UserNames \cup {Undefined} : PutNoteCheck(1, id, t, u)
    \/ PutNoteUpdate(1)
    \/ \E id \in NoteIds, u \in UserNames \cup {Undefined} : DeleteNoteCheck(1, id, u)
    \/ DeleteNoteRow(1)

SpecNotesById == InitNotesById /\ [][NextNotesById]_vars

(***************************************************************************)
(* C3: in the id-keyed revision, a PUT or DELETE /api/notes/:id whose      *)
(* user_name differs from the user_name stored on the note with that id    *)
(* changes no row of the notes table, and is answered 403 (400 when the    *)
(* body lacks a required field, 500 when the ownership query fails).       *)
(***************************************************************************)
C3_NonOwnerForbidden ==
    [][(/\ resp' # resp
        /\ resp'.op \in {"putNote", "deleteNote"}
        /\ \E r \in notes : r.id = resp'.id /\ r.user_name # resp'.user_name)
       =>
       /\ notes' = notes
       /\ resp'.status \in {400, 403, 500}
       /\ resp'.status = 400 <=>
             \/ Falsy(resp'.user_name)
             \/ resp'.op = "putNote" /\ Falsy(resp'.text)
       /\ resp'.status = 403 => resp'.body = Msg("Forbidden: You do not own this note.")
      ]_vars

\* bob's well-formed PUT on alice's note was answered 403
C3_Witness ==
    /\ resp.op = "putNote"
    /\ resp.status = 403
    /\ resp.user_name = <<"bob">>
    /\ \E r \in notes : r.id = resp.id /\ r.user_name = <<"alice">>

(***************************************************************************)
(* C8: in the id-keyed revision, a PUT /api/notes/:id by the note's owner  *)
(* changes only the note_content of the row with that id (its id, date_key *)
(* and user_name and every other row stay as they were), and the 200       *)
(* response carries the updated row.                                       *)
(***************************************************************************)
C8_OwnerPutFrame ==
    [][\A p \in Procs :
        /\ (req[p] = Idle /\ req'[p] # Idle /\ req'[p].pc = "putUpdate") =>
              /\ notes' = notes
              /\ \E r \in notes : r.id = req'[p].id /\ r.user_name = req'[p].user_name
        /\ (req[p] # Idle /\ req[p].pc = "putUpdate" /\ req'[p] = Idle) =>
              LET id == req[p].id
                  changed == [r \in notes |->
                                IF r.id = id /\ resp'.status = 200
                                THEN [r EXCEPT !.note_content = req[p].text]
                                ELSE r]
              IN
              /\ notes' = {changed[r] : r \in notes}
              /\ Cardinality(notes') = Cardinality(notes)
              /\ resp'.op = "putNote"
              /\ resp'.status \in {200, 404, 500}
              /\ resp'.status = 404 <=> ~(\E r \in notes : r.id = id) /\ resp'.status # 500
              /\ resp'.status = 200 =>
                    \E r \in notes' :
                       /\ r.id = id
                       /\ r.note_content = req[p].text
                       /\ resp'.body = [id |-> r.id, date |-> r.date_key,
                                        text |-> r.note_content, user_name |-> r.user_name]
      ]_vars

\* the owner's PUT replaced the content of one of two notes
C8_Witness ==
    /\ resp.op = "putNote"
    /\ resp.status = 200
    /\ resp.body.text = <<" ">>
    /\ \E r, q \in notes :
          /\ r.id = resp.id /\ r.note_content = <<" ">>
          /\ q.id # r.id /\ q.note_content = <<"a">>

NoteIdsUnique == \A r, q \in notes : r.id = q.id => r = q

NotesOwned == \A r \in notes : ~Falsy(r.user_name)

(***************************************************************************)
(* C10: in the id-keyed revision, every successful POST /api/notes adds    *)
(* exactly one new row, whose generated id no row of the table has, and    *)
(* leaves the existing rows unchanged, also when a note of the same date   *)
(* and user_name exists; in every reachable state no two rows share an id  *)
(* and every row has a non-empty user_name.                                *)
(***************************************************************************)
C10_PostAlwaysInserts ==
    /\ [](NoteIdsUnique /\ NotesOwned)
    /\ [][(resp' # resp /\ resp'.op = "postNoteById") =>
            IF resp'.status = 201
            THEN \E row \in notes' :
                    /\ row \notin notes
                    /\ row.id \notin {r.id : r \in notes}
                    /\ notes' = notes \cup {row}
                    /\ Cardinality(notes') = Cardinality(notes) + 1
                    /\ resp'.body = [id |-> row.id, date |-> row.date_key,
                                     text |-> row.note_content, user_name |-> row.user_name]
            ELSE notes' = notes
         ]_vars

\* a POST answered 201 left two notes of the same date, text and owner
C10_Witness ==
    /\ resp.op = "postNoteById"
    /\ resp.status = 201
    /\ \E r, q \in notes :
          /\ r.id = resp.body.id
          /\ q.id # r.id
          /\ q.date_key = r.date_key
          /\ q.user_name = r.user_name
          /\ q.note_content = r.note_content

\* The requests of concurrent clients, with all their fields present: the
\* statements of two handlers interleave.
PostedTexts == {<<"a">>}
PutTexts == {<<" ">>}

NextNotesByIdConcurrent ==
    \E p \in Procs :
       \/ \E d \in IdDates, t \in PostedTexts, u \in UserNames : PostNoteById(p, d, t, u)
       \/ \E id \in NoteIds, t \in PutTexts, u \in UserNames : PutNoteCheck(p, id, t, u)
       \/ PutNoteUpdate(p)
       \/ \E id \in NoteIds, u \in UserNames : DeleteNoteCheck(p, id, u)
       \/ DeleteNoteRow(p)

SpecNotesByIdConcurrent == InitNotesById /\ [][NextNotesByIdConcurrent]_vars

\* client p's handler runs its UPDATE or DELETE statement in this step
Writes(p) == req[p].pc \in {"putUpdate", "deleteRow"} /\ req'[p] = Idle

(***************************************************************************)
(* C17: in the id-keyed revision, under any interleaving of concurrent     *)
(* POST, PUT and DELETE requests, a note's content changes or the note is  *)
(* deleted only in the UPDATE or DELETE step of a request for that id      *)
(* whose user_name is the user_name stored on the note at that moment.     *)
(***************************************************************************)
C17_OnlyOwnerWrites ==
    [][\A r \in notes :
         (\A q \in notes' : q.id = r.id => q.note_content # r.note_content)
         => \E p \in Procs : /\ Writes(p)
                              /\ req[p].id = r.id
                              /\ req[p].user_name = r.user_name]_vars

\* client 2's PUT, checked while client 1 had a request in flight, has changed
\* the note it owns
C17_Witness ==
    /\ resp.op = "putNote" /\ resp.proc = 2 /\ resp.status = 200
    /\ req[1].pc \in {"putUpdate", "deleteRow"}
    /\ req[1].id = resp.id
    /\ \E r \in notes : /\ r.id = resp.id /\ r.user_name = resp.user_name
                         /\ r.note_content = resp.text

(***************************************************************************)
(* C18: in the id-keyed revision, a PUT whose UPDATE runs after a          *)
(* concurrent DELETE has removed the note answers 404 and leaves the table *)
(* as it is; no PUT or DELETE step adds a row.                             *)
(***************************************************************************)
C18_PutNeverCreates ==
    [][\A p \in Procs :
         Writes(p) =>
            /\ {r.id : r \in notes'} \subseteq {r.id : r \in notes}
            /\ Cardinality(notes') <= Cardinality(notes)
            /\ (/\ req[p].pc = "putUpdate" /\ ~failed'
                /\ \A r \in notes : r.id # req[p].id)
               => (resp'.status = 404 /\ notes' = notes)]_vars

\* a PUT answered 404 for a note that passed its ownership check
C18_Witness ==
    /\ resp.op = "putNote" /\ resp.status = 404
    /\ "statement" \in DOMAIN resp
    /\ \A r \in notes : r.id # resp.id
    /\ \A p \in Procs : req[p] = Idle

(***************************************************************************)
(* Calendar dates <<year, month, day>>, the date strings the handlers      *)
(* build, and what the store and the JavaScript Date make of them.         *)
(***************************************************************************)
IsLeapYear(y) == (y % 4 = 0 /\ y % 100 # 0) \/ y % 400 = 0

DaysInMonth(y, m) ==
    IF m = 2 THEN (IF IsLeapYear(y) THEN 29 ELSE 28)
    ELSE IF m \in {4, 6, 9, 11} THEN 30
    ELSE 31

IsDate(d) == d[1] > 0 /\ d[2] \in 1..12 /\ d[3] \in 1..DaysInMonth(d[1], d[2])

\* the day before d
PrevDay(d) ==
    IF d[3] > 1 THEN <<d[1], d[2], d[3] - 1>>
    ELSE IF d[2] > 1 THEN <<d[1], d[2] - 1, DaysInMonth(d[1], d[2] - 1)>>
    ELSE <<d[1] - 1, 12, 31>>

\* String(n).padStart(2, '0'), as the sequence of its decimal digits
PadStart2(n) == IF n < 10 THEN <<0, n>> ELSE <<n \div 10, n % 10>>

\* `${year}-${month}-${day}`
DateString(year, month, day) == [y |-> year, m |-> PadStart2(month), d |-> PadStart2(day)]

\* the store's reading of a 'YYYY-MM-DD' parameter compared with a date column
SqlDate(str) == <<str.y, 10 * str.m[1] + str.m[2], 10 * str.d[1] + str.d[2]>>

\* new Date(year, monthIndex, 0): local midnight of the day before the first
\* day of the month with that index (index 12 is January of the next year)
DayZeroOfMonthIndex(year, monthIndex) ==
    PrevDay(IF monthIndex = 12 THEN <<year + 1, 1, 1>> ELSE <<year, monthIndex + 1, 1>>)

\* date.toISOString().split('T')[0] of a local midnight: the UTC calendar date
\* of that instant, a day earlier when local time is ahead of UTC
IsoDateOfLocalMidnight(d, offset) == IF offset > 0 THEN PrevDay(d) ELSE d

IsoDateString(d) == DateString(d[1], d[2], d[3])

\* the server's offsets from UTC, in minutes: New York, UTC, Bangkok
TzOffsets == {-300, 0, 420}

(***************************************************************************)
(* JavaScript values of the monthly summary: the store returns a SUM as    *)
(* null or as a numeric string.                                            *)
(***************************************************************************)
JsNullValue == [t |-> "null"]
JsUndefinedValue == [t |-> "undefined"]
JsNumber(n) == [t |-> "number", v |-> n]
JsNumericString(n) == [t |-> "string", v |-> n]

\* NaN, among the numbers of the model (which are >= 0)
NaN == -2

\* a || b
JsOrFirst(a, b) == a

JsOr(a, b) ==
    IF a.t \in {"null", "undefined"} \/ (a.t = "number" /\ a.v \in {0, NaN}) THEN b ELSE a

\* parseFloat
ParseFloat(a) == IF a.t \in {"number", "string"} THEN a.v ELSE NaN

\* a + b + c
JsAdd3(a, b, c) == IF NaN \in {a, b, c} THEN NaN ELSE a + b + c

(***************************************************************************)
(* The daily-earnings endpoints (src/server.js lines 162-275, and the same *)
(* handlers over a checked-out connection in src/unnamed/part_002 and      *)
(* part_003).  A row is [id, user_id, record_date, daily_wage,             *)
(* overtime_pay, allowance, updated_at]; an amount is a number >= 0 or     *)
(* NoAmount, which is undefined in a request body and NULL in the table.   *)
(* updated_at is "now" once an UPDATE has set it to NOW(), else "default". *)
(***************************************************************************)
NoAmount == -1
NoUser == 0
Amounts(w, o, a) == [daily_wage |-> w, overtime_pay |-> o, allowance |-> a]
Payloads == {Amounts(NoAmount, NoAmount, NoAmount), Amounts(1, 2, 4)}

\* SELECT * FROM daily_earnings WHERE user_id = $1 AND record_date = $2
SelectEarnings(rows, userId, recordDate) ==
    {r \in rows : r.user_id = userId /\ r.record_date = recordDate}

\* existingEntry.rows.length > 0
NeverExists(found) == FALSE

EntryExists(found) == found # {}

\* UPDATE daily_earnings SET daily_wage = $1, overtime_pay = $2, allowance = $3,
\*   updated_at = NOW() WHERE user_id = $4 AND record_date = $5
UpdateEarnings(rows, userId, recordDate, pay) ==
    {IF r.user_id = userId /\ r.record_date = recordDate
     THEN [r EXCEPT !.daily_wage = pay.daily_wage, !.overtime_pay = pay.overtime_pay,
                    !.allowance = pay.allowance, !.updated_at = "now"]
     ELSE r : r \in rows}

\* INSERT INTO daily_earnings (user_id, record_date, daily_wage, overtime_pay, allowance)
\*   VALUES ($1, $2, $3, $4, $5)
NewEarning(id, userId, recordDate, pay) ==
    [id |-> id, user_id |-> userId, record_date |-> recordDate,
     daily_wage |-> pay.daily_wage, overtime_pay |-> pay.overtime_pay,
     allowance |-> pay.allowance, updated_at |-> "default"]

\* the INSERT, on a table that has no uniqueness constraint on
\* (user_id, record_date)
InsertEarningOnce(rows, row) ==
    IF \E r \in rows : r.user_id = row.user_id /\ r.record_date = row.record_date
    THEN rows
    ELSE rows \cup {row}

InsertEarning(rows, row) == rows \cup {row}

EarningsResp(status, m) ==
    [op |-> "postDailyEarnings", status |-> status, body |-> Msg(m)]

\* app.post('/api/daily-earnings'), up to the existence check
PostDailyEarningsCheck(p, userId, recordDate, pay) ==
    /\ req[p] = Idle
    \* the model admits a request that will insert while the table has room
    /\ \/ nextEarningId <= MaxEarnings
       \/ EntryExists(SelectEarnings(daily_earnings, userId, recordDate))
    /\ IF userId = NoUser \/ recordDate = NoDate
       THEN /\ resp' = Sent(p, EarningsResp(400, "User ID and record date are required."))
            /\ UNCHANGED req
            /\ failed' = FALSE
       ELSE \E ok \in BOOLEAN :
         /\ failed' = ~ok
         /\ IF ~ok
            THEN /\ resp' = Sent(p, EarningsResp(500, "Failed to save daily earnings."))
                 /\ UNCHANGED req
            ELSE /\ req' = [req EXCEPT ![p] =
                            [pc |-> "saveEarnings", userId |-> userId,
                             recordDate |-> recordDate, pay |-> pay,
                             exists |-> EntryExists(SelectEarnings(daily_earnings,
                                                                   userId, recordDate))]]
                 /\ UNCHANGED resp
    /\ UNCHANGED <<notes, nextId, savedNote, users, earningsVars, tz, app, pool>>

\* app.post('/api/daily-earnings'), the UPDATE or INSERT and the response
PostDailyEarningsSave(p) ==
    LET userId == req[p].userId
        recordDate == req[p].recordDate
        pay == req[p].pay
        inserted == NewEarning(nextEarningId, userId, recordDate, pay)
        updated == UpdateEarnings(daily_earnings, userId, recordDate, pay)
        Saved(data) == [op |-> "postDailyEarnings", status |-> 200,
                        body |-> [message |-> "Daily earnings saved successfully",
                                  data |-> data]]
    IN
    /\ req[p].pc = "saveEarnings"
    /\ req' = [req EXCEPT ![p] = Idle]
    /\ \E ok \in BOOLEAN :
      /\ failed' = ~ok
      /\ IF ~ok
         THEN /\ resp' = Sent(p, EarningsResp(500, "Failed to save daily earnings."))
              /\ UNCHANGED earningsVars
         ELSE /\ lastPost' = [lastPost EXCEPT ![<<userId, recordDate>>] = pay]
              /\ IF req[p].exists
                 THEN /\ daily_earnings' = updated
                      /\ UNCHANGED nextEarningId
                      \* RETURNING *: result.rows[0] is one of the updated rows,
                      \* undefined when the UPDATE matched none
                      /\ LET hit == SelectEarnings(updated, userId, recordDate)
                         IN IF hit = {}
                            THEN resp' = Sent(p, Saved({}))
                            ELSE \E r \in hit : resp' = Sent(p, Saved({r}))
                 ELSE /\ daily_earnings' = InsertEarning(daily_earnings, inserted)
                      /\ nextEarningId' = nextEarningId + 1
                      /\ resp' = Sent(p, Saved({inserted}))
    /\ UNCHANGED <<notes, nextId, savedNote, users, tz, app, pool>>

\* WHERE user_id = $1 AND record_date >= $2 AND record_date <= $3
SelectWindow(rows, userId, startDate, endDate) ==
    {r \in rows : /\ r.user_id = userId
                  /\ DateLeq(SqlDate(startDate), r.record_date)
                  /\ DateLeq(r.record_date, SqlDate(endDate))}

\* SELECT id, user_id, record_date, daily_wage, overtime_pay, allowance
Projected(r) ==
    [id |-> r.id, user_id |-> r.user_id, record_date |-> r.record_date,
     daily_wage |-> r.daily_wage, overtime_pay |-> r.overtime_pay,
     allowance |-> r.allowance]

\* ORDER BY record_date ASC: every order of the rows that ascends by date
RECURSIVE OrdersByRecordDate(_)
OrdersByRecordDate(rows) ==
    IF rows = {} THEN {<<>>}
    ELSE UNION {{<<Projected(r)>> \o rest : rest \in OrdersByRecordDate(rows \ {r})} :
                r \in {m \in rows : \A q \in rows : DateLeq(m.record_date, q.record_date)}}

\* the calendar-month window of GET /api/daily-earnings
MonthWindow(year, month, offset) ==
    [startDate |-> DateString(year, month, 1),
     endDate |-> IsoDateString(IsoDateOfLocalMidnight(DayZeroOfMonthIndex(year, month),
                                                      offset))]

\* a GET request routed to its handler: the path parameters of the request
Get(route, userId, year, month) ==
    [pc |-> route, userId |-> userId, year |-> year, month |-> month]

\* the state of a request whose handler ended without sending a response
Unanswered == [pc |-> "unanswered"]

\* the framework's own error page: a response that is not JSON
HtmlErrorPage == [type |-> "text/html", body |-> [html |-> "Internal Server Error"]]

\* An exception thrown by an async handler outside its try block: the promise
\* the handler returned rejects.  Express 4 ignores the promise, so the request
\* is never answered (and a runtime that ends the process on an unhandled
\* rejection answers nothing either); Express 5 hands the rejection to its
\* default error handler, which answers 500 with an HTML page.
Uncaught(p, r) ==
    \/ /\ req' = [req EXCEPT ![p] = Unanswered]
       /\ UNCHANGED resp
    \/ /\ req' = [req EXCEPT ![p] = Idle]
       /\ resp' = Sent(p, HtmlErrorPage @@ r)

\* new Date(year, parseInt(month), 0) is an Invalid Date, whose toISOString()
\* throws a RangeError, when a path segment is not a number
InvalidDate(year, month) == year = NaN \/ month = NaN

\* app.get('/api/daily-earnings/:userId/:year/:month')
GetDailyEarnings(p) ==
    LET userId == req[p].userId
        year == req[p].year
        month == req[p].month
        w == MonthWindow(year, month, tz)
        R(status, b) == [op |-> "getDailyEarnings", userId |-> userId, year |-> year,
                         month |-> month, status |-> status, body |-> b]
    IN
    /\ req[p].pc = "getDailyEarnings"
    /\ IF InvalidDate(year, month)
       THEN /\ Uncaught(p, R(500, Msg("none")))
            /\ failed' = FALSE
       ELSE
         /\ req' = [req EXCEPT ![p] = Idle]
         /\ \E ok \in BOOLEAN :
           /\ failed' = ~(ok /\ IsDate(SqlDate(w.startDate)) /\ IsDate(SqlDate(w.endDate)))
           /\ IF ok /\ IsDate(SqlDate(w.startDate)) /\ IsDate(SqlDate(w.endDate))
              THEN \E rows \in OrdersByRecordDate(
                                  SelectWindow(daily_earnings, userId, w.startDate, w.endDate)) :
                      resp' = Sent(p, R(200, rows))
              ELSE resp' = Sent(p, R(500, Msg("Failed to fetch daily earnings.")))
    /\ UNCHANGED <<notes, nextId, savedNote, users, earningsVars, tz, app, pool>>

\* the 21st-to-20th billing window of GET /api/monthly-summary
BillingWindowFrom20(year, month) ==
    [startDate |-> DateString(year, month, 20),
     endDate |-> DateString(IF month = 12 THEN year + 1 ELSE year,
                            IF month = 12 THEN 1 ELSE month + 1, 20)]

BillingWindowSameYear(year, month) ==
    [startDate |-> DateString(year, month, 21),
     endDate |-> DateString(year, IF month = 12 THEN 1 ELSE month + 1, 20)]

BillingWindow(year, month) ==
    LET startMonth == month
        startYear == year
        endMonth == IF startMonth = 12 THEN 1 ELSE startMonth + 1
        endYear == IF startMonth = 12 THEN startYear + 1 ELSE startYear
    IN [startDate |-> DateString(startYear, startMonth, 21),
        endDate |-> DateString(endYear, endMonth, 20)]

RECURSIVE SumAmounts(_, _)
SumAmounts(rows, col) ==
    IF rows = {} THEN 0
    ELSE LET r == CHOOSE x \in rows : TRUE
         IN r[col] + SumAmounts(rows \ {r}, col)

\* SUM(col): NULL when no row has a value in the column, else a numeric string
SqlSum(rows, col) ==
    LET valued == {r \in rows : r[col] # NoAmount}
    IN IF valued = {} THEN JsNullValue ELSE JsNumericString(SumAmounts(valued, col))

\* result.rows[0] of the summary query
SummaryRow(rows) ==
    [total_wage |-> SqlSum(rows, "daily_wage"),
     total_overtime |-> SqlSum(rows, "overtime_pay"),
     total_allowance |-> SqlSum(rows, "allowance")]

\* summary.name
Field(summary, name) == IF name \in DOMAIN summary THEN summary[name] ELSE JsUndefinedValue

WithGrandTotal(wage, overtime, allowance) ==
    [total_wage |-> wage, total_overtime |-> overtime, total_allowance |-> allowance,
     grand_total |-> JsAdd3(wage, overtime, allowance)]

\* the normalisation of src/server.js lines 260-268
Summary(row) ==
    WithGrandTotal(ParseFloat(JsOr(Field(row, "total_wage"), JsNumber(0))),
                   ParseFloat(JsOr(Field(row, "overtime_pay"), JsNumber(0))),
                   ParseFloat(JsOr(Field(row, "allowance"), JsNumber(0))))

\* the normalisation of src/unnamed/part_003 lines 335-344 (and part_002)
SummaryPooled(row) ==
    WithGrandTotal(ParseFloat(JsOr(Field(row, "total_wage"), JsNumber(0))),
                   ParseFloat(JsOr(Field(row, "total_overtime"), JsNumber(0))),
                   ParseFloat(JsOr(Field(row, "total_allowance"), JsNumber(0))))

SummaryResp(rev, userId, year, month, status, b) ==
    [op |-> "getMonthlySummary", rev |-> rev, userId |-> userId, year |-> year,
     month |-> month, status |-> status, body |-> b]

\* app.get('/api/monthly-summary/:userId/:year/:month') of src/server.js
GetMonthlySummary(p) ==
    LET userId == req[p].userId
        year == req[p].year
        month == req[p].month
        w == BillingWindow(year, month)
    IN
    /\ req[p].pc = "getMonthlySummary"
    /\ req' = [req EXCEPT ![p] = Idle]
    /\ \E ok \in BOOLEAN :
      /\ failed' = ~(ok /\ IsDate(SqlDate(w.startDate)) /\ IsDate(SqlDate(w.endDate)))
      /\ resp' = Sent(p,
            IF ok /\ IsDate(SqlDate(w.startDate)) /\ IsDate(SqlDate(w.endDate))
            THEN SummaryResp("server.js", userId, year, month, 200,
                    Summary(SummaryRow(SelectWindow(daily_earnings, userId,
                                                    w.startDate, w.endDate))))
            ELSE SummaryResp("server.js", userId, year, month, 500,
                    Msg("Failed to fetch monthly summary.")))
    /\ UNCHANGED <<notes, nextId, savedNote, users, earningsVars, tz, app, pool>>

\* app.get('/api/monthly-summary/:userId/:year/:month') of src/unnamed/part_003
\* and part_002
GetMonthlySummaryPooled(p) ==
    LET userId == req[p].userId
        year == req[p].year
        month == req[p].month
        w == BillingWindow(year, month)
    IN
    /\ req[p].pc = "getMonthlySummaryPooled"
    /\ req' = [req EXCEPT ![p] = Idle]
    /\ \E ok \in BOOLEAN :
      /\ failed' = ~(ok /\ IsDate(SqlDate(w.startDate)) /\ IsDate(SqlDate(w.endDate)))
      /\ resp' = Sent(p,
            IF ok /\ IsDate(SqlDate(w.startDate)) /\ IsDate(SqlDate(w.endDate))
            THEN SummaryResp("pooled", userId, year, month, 200,
                    SummaryPooled(SummaryRow(SelectWindow(daily_earnings, userId,
                                                          w.startDate, w.endDate))))
            ELSE SummaryResp("pooled", userId, year, month, 500,
                    Msg("Failed to fetch monthly summary.")))
    /\ UNCHANGED <<notes, nextId, savedNote, users, earningsVars, tz, app, pool>>

InitEarnings == InitCommon /\ app = "earnings"

\* the POSTs of one client, each answered before the next is sent
NextEarnings ==
    \/ \E u \in EarnUsers \cup {NoUser}, d \in EarnDates \cup {NoDate}, pay \in Payloads :
          PostDailyEarningsCheck(1, u, d, pay)
    \/ PostDailyEarningsSave(1)

SpecEarnings == InitEarnings /\ [][NextEarnings]_vars

(***************************************************************************)
(* C1: when the POSTs to /api/daily-earnings are processed one at a time,  *)
(* every (userId, recordDate) pair for which a POST has succeeded has      *)
(* exactly one row, holding the daily_wage, overtime_pay and allowance of  *)
(* the most recent successful POST for that pair (and a pair for which     *)
(* none has succeeded has no row).                                         *)
(***************************************************************************)
C1_OneRowPerPair ==
    \A k \in EarnKeys :
        LET rows == {r \in daily_earnings : r.user_id = k[1] /\ r.record_date = k[2]}
        IN IF lastPost[k] = NoPost
           THEN rows = {}
           ELSE /\ Cardinality(rows) = 1
                /\ \A r \in rows : /\ r.daily_wage = lastPost[k].daily_wage
                                   /\ r.overtime_pay = lastPost[k].overtime_pay
                                   /\ r.allowance = lastPost[k].allowance

\* a row that a second POST for its pair updated, beside the row of another pair
C1_Witness ==
    /\ req[1] = Idle
    /\ \E r, q \in daily_earnings :
          /\ r.updated_at = "now"
          /\ r.overtime_pay = 2
          /\ lastPost[<<r.user_id, r.record_date>>] = Amounts(1, 2, 4)
          /\ q.user_id = r.user_id
          /\ q.record_date # r.record_date
          /\ q.overtime_pay = NoAmount

\* The POSTs of concurrent clients, for the dates of one user: the statements
\* of two handlers interleave.
ConcurrentUsers == {1}

NextEarningsConcurrent ==
    \E p \in Procs :
       \/ \E u \in ConcurrentUsers, d \in EarnDates, pay \in Payloads :
             PostDailyEarningsCheck(p, u, d, pay)
       \/ PostDailyEarningsSave(p)

SpecEarningsConcurrent == InitEarnings /\ [][NextEarningsConcurrent]_vars

\* the rows of a (userId, recordDate) pair
RowsOfPair(rows, userId, recordDate) ==
    {r \in rows : r.user_id = userId /\ r.record_date = recordDate}

(***************************************************************************)
(* C16: a POST /api/daily-earnings whose existence check saw no row        *)
(* inserts a row and answers 200 when its INSERT runs, whether or not      *)
(* another request has inserted a row for the same (userId, recordDate)    *)
(* since the check; so two concurrent POSTs for a pair without a row can   *)
(* both insert, leaving two rows for the pair.                             *)
(***************************************************************************)
C16_BothInsert ==
    [][\A p \in Procs :
         (/\ req[p].pc = "saveEarnings" /\ req'[p] = Idle
          /\ ~req[p].exists /\ ~failed')
         => /\ Cardinality(RowsOfPair(daily_earnings', req[p].userId, req[p].recordDate))
                 = Cardinality(RowsOfPair(daily_earnings, req[p].userId, req[p].recordDate)) + 1
            /\ resp'.proc = p /\ resp'.status = 200]_vars

\* two rows for one pair, the second inserted by client 2 after a check that
\* saw none, both requests answered
C16_Witness ==
    /\ \A p \in Procs : req[p] = Idle
    /\ resp.op = "postDailyEarnings" /\ resp.proc = 2 /\ resp.status = 200
    /\ \E r, q \in daily_earnings :
          /\ r.id # q.id
          /\ r.user_id = q.user_id /\ r.record_date = q.record_date
          /\ r.updated_at = "default" /\ q.updated_at = "default"
          /\ resp.body.data = {q}

(***************************************************************************)
(* The GET handlers of the daily-earnings endpoints as functions of the    *)
(* table, the server's time zone and the path parameters: each behaviour   *)
(* starts with one request routed to its handler, over a table the POSTs   *)
(* can have built.                                                         *)
(***************************************************************************)
QueryUsers == {1, 2}
QueryYearsOfEarnings == {2024, 2025}
Months == 1..12
BoundaryDays == {1, 20, 21, 28, 29, 30, 31}

CalendarDates ==
    {d \in (2024..2026) \X Months \X BoundaryDays : IsDate(d) /\ (d[1] < 2026 \/ d[2] = 1)}

\* one row of user 1, on any of the calendar's boundary days
CalendarTables == {{NewEarning(1, 1, d, Amounts(1, 2, 4))} : d \in CalendarDates}

\* rows around the window of December 2024, of two users
SumRows ==
    {NewEarning(1, 1, <<2024, 12, 20>>, Amounts(1, 2, 4)),
     NewEarning(2, 1, <<2024, 12, 21>>, Amounts(8, 16, 32)),
     NewEarning(3, 1, <<2025, 1, 20>>, Amounts(64, NoAmount, 128)),
     NewEarning(4, 1, <<2025, 1, 21>>, Amounts(256, 512, 1024)),
     NewEarning(5, 2, <<2024, 12, 21>>, Amounts(2048, 4096, 8192)),
     NewEarning(6, 1, <<2024, 12, 31>>, Amounts(NoAmount, NoAmount, NoAmount))}

QueryTables == CalendarTables \cup SUBSET SumRows

QueryRoutes == {"getDailyEarnings", "getMonthlySummary", "getMonthlySummaryPooled"}

InitEarningsQuery ==
    /\ notes = {}
    /\ nextId = 1
    /\ savedNote = [d \in NoteDates |-> NoNote]
    /\ users = {}
    /\ daily_earnings \in QueryTables
    /\ nextEarningId = Cardinality(SumRows) + 1
    /\ lastPost = [k \in {<<r.user_id, r.record_date>> : r \in daily_earnings} |->
                     LET r == CHOOSE r \in daily_earnings : <<r.user_id, r.record_date>> = k
                     IN Amounts(r.daily_wage, r.overtime_pay, r.allowance)]
    /\ tz \in TzOffsets
    /\ \E route \in QueryRoutes, u \in QueryUsers, y \in QueryYearsOfEarnings, m \in Months :
          req = [p \in Procs |-> IF p = 1 THEN Get(route, u, y, m) ELSE Idle]
    /\ resp = NoResp
    /\ app = "earnings queries"
    /\ pool = 0
    /\ failed = FALSE

NextEarningsQuery ==
    \/ GetDailyEarnings(1)
    \/ GetMonthlySummary(1)
    \/ GetMonthlySummaryPooled(1)

SpecEarningsQuery == InitEarningsQuery /\ [][NextEarningsQuery]_vars

\* the month after month M of year Y
MonthAfter(Y, M) == IF M = 12 THEN <<Y + 1, 1>> ELSE <<Y, M + 1>>

\* d lies from the 21st of month M of year Y to the 20th of the month after
InBillingCycle(d, Y, M) ==
    \/ d[1] = Y /\ d[2] = M /\ d[3] >= 21
    \/ <<d[1], d[2]>> = MonthAfter(Y, M) /\ d[3] <= 20

CycleRows(u, Y, M) ==
    {r \in daily_earnings : r.user_id = u /\ InBillingCycle(r.record_date, Y, M)}

RECURSIVE ColumnTotal(_, _)
ColumnTotal(rows, col) ==
    IF rows = {} THEN 0
    ELSE LET r == CHOOSE x \in rows : TRUE
         IN (IF r[col] = NoAmount THEN 0 ELSE r[col]) + ColumnTotal(rows \ {r}, col)

SummaryAnswered == resp.op = "getMonthlySummary" /\ resp.status = 200

(***************************************************************************)
(* C4: for every user, year Y and month M in 1..12, the monthly summary    *)
(* sums exactly the user's rows dated from the 21st of month M of year Y   *)
(* to the 20th of the following month, both included (January of Y+1 when  *)
(* M = 12): total_wage in every revision, and total_overtime and           *)
(* total_allowance in the revisions that read the summed columns.          *)
(***************************************************************************)
C4_BillingWindowRows ==
    SummaryAnswered =>
        LET rows == CycleRows(resp.userId, resp.year, resp.month)
        IN /\ resp.body.total_wage = ColumnTotal(rows, "daily_wage")
           /\ resp.rev = "pooled" =>
                 /\ resp.body.total_overtime = ColumnTotal(rows, "overtime_pay")
                 /\ resp.body.total_allowance = ColumnTotal(rows, "allowance")

\* the summary of December 2024 over rows of the 20th and 21st of December and
\* of January: the 21st of December and the 20th of January are summed
C4_Witness ==
    /\ SummaryAnswered
    /\ resp.rev = "server.js"
    /\ resp.userId = 1 /\ resp.year = 2024 /\ resp.month = 12
    /\ {r.record_date : r \in daily_earnings} =
          {<<2024, 12, 20>>, <<2024, 12, 21>>, <<2025, 1, 20>>, <<2025, 1, 21>>}
    /\ resp.body.total_wage = 8 + 64

(***************************************************************************)
(* C5: in every revision of the monthly summary, total_wage, total_overtime*)
(* and total_allowance are the sums of daily_wage, overtime_pay and        *)
(* allowance over the rows of the billing window, and grand_total is the   *)
(* sum of the three.                                                       *)
(***************************************************************************)
C5_ColumnSums ==
    SummaryAnswered =>
        LET rows == CycleRows(resp.userId, resp.year, resp.month)
        IN /\ resp.body.total_wage = ColumnTotal(rows, "daily_wage")
           /\ resp.body.total_overtime = ColumnTotal(rows, "overtime_pay")
           /\ resp.body.total_allowance = ColumnTotal(rows, "allowance")
           /\ resp.body.grand_total = ColumnTotal(rows, "daily_wage")
                                      + ColumnTotal(rows, "overtime_pay")
                                      + ColumnTotal(rows, "allowance")

(***************************************************************************)
(* C6: when the user has no row inside the billing window, every revision  *)
(* of the monthly summary returns total_wage = 0, total_overtime = 0,      *)
(* total_allowance = 0 and grand_total = 0.                                *)
(***************************************************************************)
C6_EmptyWindowZeros ==
    (SummaryAnswered /\ CycleRows(resp.userId, resp.year, resp.month) = {}) =>
        resp.body = [total_wage |-> 0, total_overtime |-> 0, total_allowance |-> 0,
                     grand_total |-> 0]

\* an all-zero summary for a user whose rows all lie outside the window
C6_Witness ==
    /\ SummaryAnswered
    /\ resp.rev = "pooled"
    /\ \E r \in daily_earnings : r.user_id = resp.userId
    /\ CycleRows(resp.userId, resp.year, resp.month) = {}
    /\ resp.body.grand_total = 0

\* d lies in month M of year Y
InCalendarMonth(d, Y, M) == d[1] = Y /\ d[2] = M /\ d[3] \in 1..DaysInMonth(Y, M)

(***************************************************************************)
(* C9: GET /api/daily-earnings/:userId/:year/:month returns exactly the    *)
(* user's rows dated from the first to the last calendar day of the month, *)
(* both included, in ascending record_date order.                          *)
(***************************************************************************)
C9_CalendarMonthRows ==
    (resp.op = "getDailyEarnings" /\ resp.status = 200) =>
        /\ {resp.body[i].id : i \in 1..Len(resp.body)} =
              {r.id : r \in {x \in daily_earnings :
                               /\ x.user_id = resp.userId
                               /\ InCalendarMonth(x.record_date, resp.year, resp.month)}}
        /\ \A i, j \in 1..Len(resp.body) :
              i < j => DateLeq(resp.body[i].record_date, resp.body[j].record_date)

\* the (year, month) pairs whose billing window, as the handler computes it,
\* holds date d
WindowsHolding(d) ==
    {ym \in ((d[1] - 1)..(d[1] + 1)) \X Months :
        LET w == BillingWindow(ym[1], ym[2])
        IN DateLeq(SqlDate(w.startDate), d) /\ DateLeq(d, SqlDate(w.endDate))}

(***************************************************************************)
(* C19: the billing windows that GET /api/monthly-summary computes for the *)
(* (year, month) pairs, month in 1..12, partition the calendar: every date *)
(* lies in the window of exactly one pair, across December to January too. *)
(* Stated, when a summary is answered, of the date of every row of the     *)
(* table it was computed from.                                             *)
(***************************************************************************)
C19_WindowsPartition ==
    SummaryAnswered =>
        \A r \in daily_earnings : Cardinality(WindowsHolding(r.record_date)) = 1

\* the row of 20 January 2025 is left out of the summary of January 2025: it
\* belongs to the window of December 2024 alone
C19_Witness ==
    /\ SummaryAnswered
    /\ resp.rev = "pooled"
    /\ resp.userId = 1 /\ resp.year = 2025 /\ resp.month = 1
    /\ \E r \in daily_earnings : r.user_id = 1 /\ r.record_date = <<2025, 1, 20>>
                                  /\ r.daily_wage = 1
    /\ Cardinality(daily_earnings) = 1
    /\ resp.body.grand_total = 0
    /\ WindowsHolding(<<2025, 1, 20>>) = {<<2024, 12>>}

(***************************************************************************)
(* The GET endpoints under every value of the year and month path segments *)
(* (NaN stands for a segment that is not a number), each request being     *)
(* served to its end: the event loop runs every handler that is ready.     *)
(***************************************************************************)
PathYears == {2025, NaN}
PathMonths == {1, 12, NaN}

InitEarningsQueryAnyPath ==
    /\ notes = {}
    /\ nextId = 1
    /\ savedNote = [d \in NoteDates |-> NoNote]
    /\ users = {}
    /\ daily_earnings \in SUBSET SumRows
    /\ nextEarningId = Cardinality(SumRows) + 1
    /\ lastPost = [k \in {<<r.user_id, r.record_date>> : r \in daily_earnings} |->
                     LET r == CHOOSE r \in daily_earnings : <<r.user_id, r.record_date>> = k
                     IN Amounts(r.daily_wage, r.overtime_pay, r.allowance)]
    /\ tz \in TzOffsets
    /\ \E route \in QueryRoutes, y \in PathYears, m \in PathMonths :
          req = [p \in Procs |-> IF p = 1 THEN Get(route, 1, y, m) ELSE Idle]
    /\ resp = NoResp
    /\ app = "earnings queries"
    /\ pool = 0
    /\ failed = FALSE

SpecEarningsQueryAnyPath ==
    InitEarningsQueryAnyPath /\ [][NextEarningsQuery]_vars /\ WF_vars(NextEarningsQuery)

\* the response is JSON
IsJson(r) == "type" \notin DOMAIN r

(***************************************************************************)
(* C20: every request eventually receives a response, and the response is  *)
(* JSON, for every value of its inputs: also a GET /api/daily-earnings     *)
(* whose year or month path segment is not a number.                       *)
(***************************************************************************)
C20_EveryRequestAnswered ==
    \A p \in Procs :
       [](req[p] # Idle => <>(/\ req[p] = Idle
                              /\ resp.op # "none"
                              /\ resp.proc = p
                              /\ IsJson(resp)))

\* a GET /api/daily-earnings/1/2025/abc has ended and no response was sent
C20_Witness ==
    /\ req[1] = Unanswered
    /\ resp = NoResp

(***************************************************************************)
(* POST /login.  The hardened revision (src/unnamed/part_002 lines 36-63)  *)
(* looks the user up by username and compares the password with bcrypt;    *)
(* the earlier revision (src/server.js lines 141-156) looks the user up by *)
(* the password alone.  A users row is [id, username, password].           *)
(***************************************************************************)

\* a JSON number in a request body
JsonNumber == <<"number">>

LoginUserNames == UserNames \cup {<<"carol">>, Undefined}
LoginPasswords == {<<"a">>, <<" ">>, Undefined, JsonNumber}

\* a bcrypt hash of a password
BcryptHash(password) == <<"$2b$10$">> \o password

\* the users tables: alice's password "a" is stored hashed, bob's in plain text
UsersTables ==
    SUBSET {[id |-> 1, username |-> <<"alice">>, password |-> BcryptHash(<<"a">>)],
            [id |-> 2, username |-> <<"bob">>, password |-> <<"a">>]}

\* bcrypt.compare(data, hash) rejects when data is missing or not a string
BcryptThrows(data, hash) == data \in {Undefined, JsNull, JsonNumber}

\* the value bcrypt.compare(data, hash) resolves to
BcryptCompare(data, hash) == hash = BcryptHash(data)

LoginSuccessful(user) ==
    [message |-> "Login successful", user |-> [id |-> user.id, username |-> user.username]]

\* the response of a login handler, and the error its catch block logs
LoginResp(rev, username, password, status, b, logged) ==
    [op |-> "login", rev |-> rev, username |-> username, password |-> password,
     status |-> status, body |-> b, logged |-> logged]

\* app.post('/login') of src/unnamed/part_002
Login(p, username, password) ==
    LET R(status, b, logged) == LoginResp("hardened", username, password, status, b, logged)
        rows == {u \in users : u.username = username}
    IN
    /\ \E ok \in BOOLEAN :
      /\ failed' = ~ok
      /\ IF ~ok THEN resp' = Sent(p, R(500, Msg("Server error during login"), "connect/query"))
         ELSE IF rows # {}
         THEN \E user \in rows :
                 IF BcryptThrows(password, user.password)
                 THEN resp' = Sent(p, R(500, Msg("Server error during login"),
                                        "bcrypt.compare"))
                 ELSE IF BcryptCompare(password, user.password)
                 THEN resp' = Sent(p, R(200, LoginSuccessful(user), "none"))
                 ELSE resp' = Sent(p, R(401, Msg("Invalid username or password"), "none"))
         ELSE resp' = Sent(p, R(401, Msg("Invalid username or password"), "none"))
    /\ UNCHANGED <<notes, nextId, savedNote, users, earningsVars, tz, app, pool, req>>

\* app.post('/login') of src/server.js
LoginByPassword(p, password) ==
    LET R(status, b, logged) == LoginResp("password", Undefined, password, status, b, logged)
        rows == {u \in users : u.password = password}
    IN
    /\ \E ok \in BOOLEAN :
      /\ failed' = ~ok
      /\ IF ~ok THEN resp' = Sent(p, R(500, Msg("Server error during login"), "query"))
         ELSE IF rows # {}
         THEN \E user \in rows : resp' = Sent(p, R(200, LoginSuccessful(user), "none"))
         ELSE resp' = Sent(p, R(401, Msg("Invalid password"), "none"))
    /\ UNCHANGED <<notes, nextId, savedNote, users, earningsVars, tz, app, pool, req>>

InitLogin ==
    /\ notes = {}
    /\ nextId = 1
    /\ savedNote = [d \in NoteDates |-> NoNote]
    /\ users \in UsersTables
    /\ daily_earnings = {}
    /\ nextEarningId = 1
    /\ lastPost = [k \in EarnKeys |-> NoPost]
    /\ tz = 0
    /\ req = [p \in Procs |-> Idle]
    /\ resp = NoResp
    /\ app = "login"
    /\ pool = 0
    /\ failed = FALSE

NextLogin ==
    \/ \E u \in LoginUserNames, pw \in LoginPasswords : Login(1, u, pw)
    \/ \E pw \in LoginPasswords : LoginByPassword(1, pw)

SpecLogin == InitLogin /\ [][NextLogin]_vars

\* r answers a hardened login whose user lookup succeeded
HardenedAnswer(r) ==
    r.op = "login" /\ r.rev = "hardened" /\ r.logged # "connect/query"

\* r answers a login that names an existing user with a password that is not
\* the user's
WrongPassword(r) ==
    \E u \in users : u.username = r.username /\ u.password # BcryptHash(r.password)

\* r answers a login that names nobody in the users table
UnknownUser(r) == \A u \in users : u.username # r.username

(***************************************************************************)
(* C7: in the hardened login revision, a login naming an existing user     *)
(* with a wrong password and a login naming a username that is not in the  *)
(* users table get the same response: status 401 and the same body.        *)
(* Stated of any two consecutive answers whose user lookup succeeded.      *)
(***************************************************************************)
C7_SameUnauthorized ==
    [][(/\ HardenedAnswer(resp) /\ HardenedAnswer(resp')
        /\ WrongPassword(resp) /\ UnknownUser(resp'))
       => /\ resp.status = 401 /\ resp'.status = 401
          /\ resp.body = resp'.body]_vars

(***************************************************************************)
(* The pooled revisions (src/unnamed/part_002 and part_003).  Every        *)
(* handler declares client, checks a connection out of the pool into it,   *)
(* issues its statements on it and releases it in its finally block.       *)
(* pool is the number of connections that handlers hold.                   *)
(***************************************************************************)
PooledUserNames == {<<"alice">>, <<"carol">>}
PooledPasswords == {<<"a">>, Undefined}
PooledDates == {<<2025, 1, 20>>}
PooledPayloads == {Amounts(1, 2, 4)}
PooledMonths == {1, NaN}

\* the message of the catch block of a route's handler
CatchMessage(route) ==
    CASE route \in {"login", "loginByPassword"} -> "Server error during login"
      [] route = "postDailyEarnings" -> "Failed to save daily earnings."
      [] route = "getDailyEarnings" -> "Failed to fetch daily earnings."
      [] route = "getMonthlySummary" -> "Failed to fetch monthly summary."

\* a handler that never releases
NeverReleases(held, client) == held

\* finally { if (client) { client.release(); } }
Release(held, client) == IF client THEN held - 1 ELSE held

\* a response of a pooled handler; client tells whether the handler held a
\* connection when it answered
PooledResp(route, client, status, b) ==
    [op |-> route, rev |-> "pooled", client |-> client, status |-> status, body |-> b]

\* let client; try { client = await pool.connect(); ... of the handler of a
\* route serving p: the connection is checked out, or the checkout fails and
\* the catch and finally blocks run with client undefined
Connect(p, route, args, ok) ==
    /\ failed' = ~ok
    /\ IF ok
       THEN /\ pool' = pool + 1
            /\ req' = [req EXCEPT ![p] = [pc |-> route, client |-> TRUE] @@ args]
            /\ UNCHANGED resp
       ELSE /\ resp' = Sent(p, PooledResp(route, FALSE, 500, Msg(CatchMessage(route))))
            /\ pool' = Release(pool, FALSE)
            /\ UNCHANGED req

\* the handler serving p answers, and its finally block runs
Ends(p, status, b) ==
    /\ resp' = Sent(p, PooledResp(req[p].pc, req[p].client, status, b))
    /\ pool' = Release(pool, req[p].client)
    /\ req' = [req EXCEPT ![p] = Idle]

\* a handler whose try has a finally block and no catch block
Escapes(p) ==
    /\ UNCHANGED resp
    /\ pool' = Release(pool, req[p].client)
    /\ req' = [req EXCEPT ![p] = Unanswered]

\* a statement of the handler serving p fails: its catch and finally blocks
Caught(p) == Ends(p, 500, Msg(CatchMessage(req[p].pc)))

\* app.post('/login') of src/unnamed/part_002, up to the checkout
LoginConnect(p, username, password) ==
    /\ req[p] = Idle
    /\ \E ok \in BOOLEAN :
          Connect(p, "login", [username |-> username, password |-> password], ok)
    /\ UNCHANGED <<notes, nextId, savedNote, users, earningsVars, tz, app>>

\* app.post('/login') of src/unnamed/part_002, from the SELECT on
LoginQuery(p) ==
    LET rows == {u \in users : u.username = req[p].username}
    IN
    /\ req[p].pc = "login"
    /\ \E ok \in BOOLEAN :
      /\ failed' = ~ok
      /\ IF ~ok THEN Caught(p)
         ELSE IF rows # {}
         THEN \E user \in rows :
                 IF BcryptThrows(req[p].password, user.password) THEN Caught(p)
                 ELSE IF BcryptCompare(req[p].password, user.password)
                 THEN Ends(p, 200, LoginSuccessful(user))
                 ELSE Ends(p, 401, Msg("Invalid username or password"))
         ELSE Ends(p, 401, Msg("Invalid username or password"))
    /\ UNCHANGED <<notes, nextId, savedNote, users, earningsVars, tz, app>>

\* app.post('/login') of src/unnamed/part_003, up to the checkout
LoginByPasswordConnect(p, password) ==
    /\ req[p] = Idle
    /\ \E ok \in BOOLEAN : Connect(p, "loginByPassword", [password |-> password], ok)
    /\ UNCHANGED <<notes, nextId, savedNote, users, earningsVars, tz, app>>

\* app.post('/login') of src/unnamed/part_003, from the SELECT on
LoginByPasswordQuery(p) ==
    LET rows == {u \in users : u.password = req[p].password}
    IN
    /\ req[p].pc = "loginByPassword"
    /\ \E ok \in BOOLEAN :
      /\ failed' = ~ok
      /\ IF ~ok THEN Caught(p)
         ELSE IF rows # {}
         THEN \E user \in rows : Ends(p, 200, LoginSuccessful(user))
         ELSE Ends(p, 401, Msg("Invalid password"))
    /\ UNCHANGED <<notes, nextId, savedNote, users, earningsVars, tz, app>>

\* app.post('/api/daily-earnings') of the pooled revisions, up to the checkout
PostDailyEarningsConnect(p, userId, recordDate, pay) ==
    /\ req[p] = Idle
    \* the model admits a request that will insert while the table has room
    /\ \/ nextEarningId <= MaxEarnings
       \/ EntryExists(SelectEarnings(daily_earnings, userId, recordDate))
    /\ IF userId = NoUser \/ recordDate = NoDate
       THEN /\ resp' = Sent(p, PooledResp("postDailyEarnings", FALSE, 400,
                                          Msg("User ID and record date are required.")))
            /\ failed' = FALSE
            /\ UNCHANGED <<req, pool>>
       ELSE \E ok \in BOOLEAN :
               Connect(p, "postDailyEarnings",
                       [userId |-> userId, recordDate |-> recordDate, pay |-> pay], ok)
    /\ UNCHANGED <<notes, nextId, savedNote, users, earningsVars, tz, app>>

\* app.post('/api/daily-earnings') of the pooled revisions, the existence check
PostDailyEarningsSelect(p) ==
    /\ req[p].pc = "postDailyEarnings"
    /\ \E ok \in BOOLEAN :
      /\ failed' = ~ok
      /\ IF ~ok THEN Caught(p)
         ELSE /\ req' = [req EXCEPT ![p] =
                          [pc |-> "saveEarnings",
                           exists |-> EntryExists(SelectEarnings(daily_earnings,
                                                     req[p].userId, req[p].recordDate))]
                          @@ req[p]]
              /\ UNCHANGED <<resp, pool>>
    /\ UNCHANGED <<notes, nextId, savedNote, users, earningsVars, tz, app>>

\* app.post('/api/daily-earnings') of the pooled revisions, the UPDATE or
\* INSERT, the response and the finally block
PostDailyEarningsWrite(p) ==
    LET userId == req[p].userId
        recordDate == req[p].recordDate
        pay == req[p].pay
        inserted == NewEarning(nextEarningId, userId, recordDate, pay)
        updated == UpdateEarnings(daily_earnings, userId, recordDate, pay)
        Saved(data) == [message |-> "Daily earnings saved successfully", data |-> data]
        Answers(status, b) ==
            /\ resp' = Sent(p, PooledResp("postDailyEarnings", req[p].client, status, b))
            /\ pool' = Release(pool, req[p].client)
            /\ req' = [req EXCEPT ![p] = Idle]
    IN
    /\ req[p].pc = "saveEarnings"
    /\ \E ok \in BOOLEAN :
      /\ failed' = ~ok
      /\ IF ~ok
         THEN /\ Answers(500, Msg(CatchMessage("postDailyEarnings")))
              /\ UNCHANGED earningsVars
         ELSE /\ lastPost' = [lastPost EXCEPT ![<<userId, recordDate>>] = pay]
              /\ IF req[p].exists
                 THEN /\ daily_earnings' = updated
                      /\ UNCHANGED nextEarningId
                      /\ LET hit == SelectEarnings(updated, userId, recordDate)
                         IN IF hit = {}
                            THEN Answers(200, Saved({}))
                            ELSE \E r \in hit : Answers(200, Saved({r}))
                 ELSE /\ daily_earnings' = InsertEarning(daily_earnings, inserted)
                      /\ nextEarningId' = nextEarningId + 1
                      /\ Answers(200, Saved({inserted}))
    /\ UNCHANGED <<notes, nextId, savedNote, users, tz, app>>

\* app.get('/api/daily-earnings/:userId/:year/:month') of the pooled
\* revisions, up to the checkout
GetDailyEarningsConnect(p, userId, year, month) ==
    /\ req[p] = Idle
    /\ IF InvalidDate(year, month)
       THEN /\ Uncaught(p, [op |-> "getDailyEarnings", rev |-> "pooled", client |-> FALSE,
                            status |-> 500])
            /\ failed' = FALSE
            /\ UNCHANGED pool
       ELSE \E ok \in BOOLEAN :
               Connect(p, "getDailyEarnings",
                       [userId |-> userId, year |-> year, month |-> month], ok)
    /\ UNCHANGED <<notes, nextId, savedNote, users, earningsVars, tz, app>>

\* app.get('/api/daily-earnings/:userId/:year/:month') of the pooled
\* revisions, from the SELECT on
GetDailyEarningsQuery(p) ==
    LET w == MonthWindow(req[p].year, req[p].month, tz)
        valid == IsDate(SqlDate(w.startDate)) /\ IsDate(SqlDate(w.endDate))
    IN
    /\ req[p].pc = "getDailyEarnings"
    /\ \E ok \in BOOLEAN :
      /\ failed' = ~(ok /\ valid)
      /\ IF ok /\ valid
         THEN \E rows \in OrdersByRecordDate(
                             SelectWindow(daily_earnings, req[p].userId,
                                          w.startDate, w.endDate)) :
                 Ends(p, 200, rows)
         ELSE Caught(p)
    /\ UNCHANGED <<notes, nextId, savedNote, users, earningsVars, tz, app>>

\* app.get('/api/monthly-summary/:userId/:year/:month') of the pooled
\* revisions, up to the checkout
GetMonthlySummaryConnect(p, userId, year, month) ==
    /\ req[p] = Idle
    /\ \E ok \in BOOLEAN :
          Connect(p, "getMonthlySummary",
                  [userId |-> userId, year |-> year, month |-> month], ok)
    /\ UNCHANGED <<notes, nextId, savedNote, users, earningsVars, tz, app>>

\* app.get('/api/monthly-summary/:userId/:year/:month') of the pooled
\* revisions, from the SELECT on
GetMonthlySummaryQuery(p) ==
    LET w == BillingWindow(req[p].year, req[p].month)
        valid == IsDate(SqlDate(w.startDate)) /\ IsDate(SqlDate(w.endDate))
    IN
    /\ req[p].pc = "getMonthlySummary"
    /\ \E ok \in BOOLEAN :
      /\ failed' = ~(ok /\ valid)
      /\ IF ok /\ valid
         THEN Ends(p, 200, SummaryPooled(SummaryRow(
                              SelectWindow(daily_earnings, req[p].userId,
                                           w.startDate, w.endDate))))
         ELSE Caught(p)
    /\ UNCHANGED <<notes, nextId, savedNote, users, earningsVars, tz, app>>

InitPooled ==
    /\ notes = {}
    /\ nextId = 1
    /\ savedNote = [d \in NoteDates |-> NoNote]
    /\ users \in {t \in UsersTables : Cardinality(t) = 2}
    /\ daily_earnings = {}
    /\ nextEarningId = 1
    /\ lastPost = [k \in EarnKeys |-> NoPost]
    /\ tz = 0
    /\ req = [p \in Procs |-> Idle]
    /\ resp = NoResp
    /\ app = "pooled"
    /\ pool = 0
    /\ failed = FALSE

\* the requests of concurrent clients: the statements of two handlers interleave
NextPooled ==
    \E p \in Procs :
       \/ \E u \in PooledUserNames, pw \in PooledPasswords : LoginConnect(p, u, pw)
       \/ LoginQuery(p)
       \/ \E pw \in PooledPasswords : LoginByPasswordConnect(p, pw)
       \/ LoginByPasswordQuery(p)
       \/ \E u \in ConcurrentUsers \cup {NoUser}, d \in PooledDates, pay \in PooledPayloads :
             PostDailyEarningsConnect(p, u, d, pay)
       \/ PostDailyEarningsSelect(p)
       \/ PostDailyEarningsWrite(p)
       \/ \E m \in PooledMonths : GetDailyEarningsConnect(p, 1, 2025, m)
       \/ GetDailyEarningsQuery(p)
       \/ \E m \in PooledMonths : GetMonthlySummaryConnect(p, 1, 2025, m)
       \/ GetMonthlySummaryQuery(p)

SpecPooled == InitPooled /\ [][NextPooled]_vars

\* the handler serving p holds a connection
HoldsClient(p) == "client" \in DOMAIN req[p] /\ req[p].client

\* no request is in flight
NoneInFlight == \A p \in Procs : req[p] \in {Idle, Unanswered}

(***************************************************************************)
(* C15: in the pooled revisions every handler releases the connection it   *)
(* checked out exactly once on every exit path, so the connections checked *)
(* out are those of the handlers still running, and none when no request   *)
(* is in flight.                                                           *)
(***************************************************************************)
C15_ReleasedOnEveryPath ==
    /\ pool = Cardinality({p \in Procs : HoldsClient(p)})
    /\ NoneInFlight => pool = 0

\* a statement issued on a checked-out connection has failed and was answered
\* 500 by the handler that held the connection; nothing is checked out now
C15_Witness ==
    /\ resp.op = "postDailyEarnings"
    /\ resp.status = 500
    /\ resp.client
    /\ failed
    /\ \A p \in Procs : req[p] = Idle
    /\ pool = 0

(***************************************************************************)
(* The whole repository: one of its servers runs, and serves the requests  *)
(* of its endpoints.                                                       *)
(***************************************************************************)
InitBackend ==
    \/ InitNotesByDate
    \/ InitNotesById
    \/ InitEarnings
    \/ InitEarningsQueryAnyPath
    \/ InitLogin
    \/ InitPooled

NextBackend ==
    \/ app = "notes by date" /\ NextNotesByDate
    \/ app = "notes by id" /\ NextNotesById
    \/ app = "earnings" /\ NextEarnings
    \/ app = "earnings queries" /\ NextEarningsQuery
    \/ app = "login" /\ NextLogin
    \/ app = "pooled" /\ NextPooled

SpecBackend == InitBackend /\ [][NextBackend]_vars

\* the tables of the store and their id sequences
store == <<notes, nextId, users, daily_earnings, nextEarningId>>

\* the bodies that lack a required field, of the requests the servers are sent
EarningsLacking ==
    {b \in (EarnUsers \cup {NoUser}) \X (EarnDates \cup {NoDate}) \X Payloads :
        b[1] = NoUser \/ b[2] = NoDate}
PooledEarningsLacking == {NoUser} \X PooledDates \X PooledPayloads
NoteLacking ==
    {b \in (NoteDates \cup {NoDate}) \X (Texts \cup {Undefined, JsNull}) :
        b[1] = NoDate \/ b[2] = Undefined}
NoteByIdLacking ==
    {b \in (IdDates \cup {NoDate}) \X (IdTexts \cup {Undefined}) \X (UserNames \cup {Undefined}) :
        b[1] = NoDate \/ b[2] = Undefined \/ b[3] = Undefined}
PutLacking ==
    {b \in NoteIds \X (IdTexts \cup {Undefined}) \X (UserNames \cup {Undefined}) :
        b[2] = Undefined \/ b[3] = Undefined}

\* A step that serves a request lacking a required field.  Every branch of
\* the date-keyed POST answers as postNote with the date and text it was sent,
\* every branch of the id-keyed POST answers as postNoteById, and every branch
\* of the PUT answers as putNote or goes on to the UPDATE: steps that do
\* neither are not steps of these handlers.
LacksRequiredField ==
    \/ /\ app = "earnings"
       /\ \E p \in Procs, b \in EarningsLacking :
             PostDailyEarningsCheck(p, b[1], b[2], b[3])
    \/ /\ app = "pooled"
       /\ \E p \in Procs, b \in PooledEarningsLacking :
             PostDailyEarningsConnect(p, b[1], b[2], b[3])
    \/ /\ app = "notes by date"
       /\ resp'.op = "postNote"
       /\ <<resp'.date, resp'.text>> \in NoteLacking
       /\ PostNote(resp'.proc, resp'.date, resp'.text)
    \/ /\ app = "notes by id"
       /\ resp'.op = "postNoteById"
       /\ \E b \in NoteByIdLacking : PostNoteById(resp'.proc, b[1], b[2], b[3])
    \/ /\ app = "notes by id"
       /\ resp'.op = "putNote" \/ \E p \in Procs : req'[p].pc = "putUpdate"
       /\ \E p \in Procs, b \in PutLacking : PutNoteCheck(p, b[1], b[2], b[3])

(***************************************************************************)
(* C12: a POST /api/daily-earnings, POST /api/notes or PUT /api/notes/:id  *)
(* that lacks a required field is answered 400 before any store statement  *)
(* is issued: no statement fails, no connection is checked out, the        *)
(* handler has ended and the store is unchanged.                           *)
(***************************************************************************)
C12_MissingFieldRejected ==
    [][LacksRequiredField =>
          /\ resp'.status = 400
          /\ DOMAIN resp'.body = {"message"}
          /\ ~failed'
          /\ pool' = pool
          /\ req' = req
          /\ store' = store]_vars

\* a PUT without user_name was answered 400 while the note it names exists
C12_Witness ==
    /\ resp.op = "putNote"
    /\ resp.status = 400
    /\ resp.user_name = Undefined
    /\ resp.text # Undefined
    /\ \E r \in notes : r.id = resp.id

(***************************************************************************)
(* C14: when a store statement of a handler fails, checking out the        *)
(* connection included, the request is answered with status 500 and a body *)
(* {message}, and the handler has ended; when the statement is the first   *)
(* one of the handler, the store is unchanged.                             *)
(***************************************************************************)
C14_StoreFailureAnswered ==
    [][failed' =>
          /\ resp'.op # "none"
          /\ resp'.status = 500
          /\ DOMAIN resp'.body = {"message"}
          /\ req'[resp'.proc] = Idle
          /\ req[resp'.proc] = Idle => store' = store]_vars

\* the UPDATE of a PUT, the handler's second statement, failed and was
\* answered 500; the note is as it was
C14_Witness ==
    /\ failed
    /\ resp.op = "putNote"
    /\ "statement" \in DOMAIN resp
    /\ resp.status = 500
    /\ \E r \in notes : r.id = resp.id /\ r.note_content # resp.text

(***************************************************************************)
(* The startup connectivity test.  Each server file that tests the         *)
(* connection checks a client out of the pool when it is loaded and runs a *)
(* callback on the result, while the server already serves requests.  The  *)
(* test is the process Startup of req; here pool counts every connection   *)
(* that is checked out, the test's included.                               *)
(***************************************************************************)
Startup == 0

\* the tests, named by the file and the line of their pool.connect
StartupTests == {"server.js:22", "server.js:130", "part_002:24", "part_003:49", "part_003:184"}

\* the server that the file of a test defines
ServerOf(test) ==
    CASE test \in {"server.js:22", "part_003:49"} -> "notes by date"
      [] test = "server.js:130" -> "earnings"
      [] test \in {"part_002:24", "part_003:184"} -> "pooled"

\* The callback of a test that connected: .then(client => client.release())
\* at server.js:22 and part_003:49, (err, client, release) => release() at
\* part_002:24 and part_003:184, and (err) => console.log(...) at server.js:130,
\* which takes neither the client nor the release function.
CallbackReleases(test) == test # "server.js:130"

\* the test has run: its callback has returned
Started(test, connected) == [pc |-> "started", test |-> test, connected |-> connected]

\* pool.connect(...) of the test: a client is checked out, or the connection
\* fails and the callback logs the error
StartupConnect ==
    /\ req[Startup].pc = "startup"
    /\ \E ok \in BOOLEAN :
      /\ failed' = ~ok
      /\ IF ok
         THEN /\ pool' = pool + 1
              /\ req' = [req EXCEPT ![Startup] = [pc |-> "connected", test |-> @.test]]
         ELSE /\ pool' = pool
              /\ req' = [req EXCEPT ![Startup] = Started(@.test, FALSE)]
    /\ UNCHANGED <<notes, nextId, savedNote, users, earningsVars, tz, app, resp>>

\* the callback of the test, given the client
StartupCallback ==
    /\ req[Startup].pc = "connected"
    /\ pool' = Release(pool, CallbackReleases(req[Startup].test))
    /\ req' = [req EXCEPT ![Startup] = Started(@.test, TRUE)]
    /\ failed' = FALSE
    /\ UNCHANGED <<notes, nextId, savedNote, users, earningsVars, tz, app, resp>>

InitStartup ==
    /\ notes = {}
    /\ nextId = 1
    /\ savedNote = [d \in NoteDates |-> NoNote]
    /\ daily_earnings = {}
    /\ nextEarningId = 1
    /\ lastPost = [k \in EarnKeys |-> NoPost]
    /\ tz = 0
    /\ resp = NoResp
    /\ pool = 0
    /\ failed = FALSE
    /\ \E test \in StartupTests :
          /\ app = ServerOf(test)
          /\ req = [p \in {Startup} \cup Procs |->
                      IF p = Startup THEN [pc |-> "startup", test |-> test] ELSE Idle]
          /\ users \in IF ServerOf(test) = "pooled"
                       THEN {t \in UsersTables : Cardinality(t) = 2}
                       ELSE {{}}

NextStartup ==
    \/ StartupConnect
    \/ StartupCallback
    \/ app = "notes by date" /\ NextNotesByDate
    \/ app = "earnings" /\ NextEarnings
    \/ app = "pooled" /\ NextPooled

SpecStartup == InitStartup /\ [][NextStartup]_vars

(***************************************************************************)
(* C21: in every revision the connection the startup connectivity test     *)
(* checked out is released once the test has succeeded: after startup,     *)
(* with no request in flight, no pool connection is checked out.           *)
(***************************************************************************)
C21_StartupConnectionReleased ==
    (req[Startup].pc = "started" /\ NoneInFlight) => pool = 0

\* the test of part_003 line 184 connected and released its client, and a
\* request has been served since
C21_Witness ==
    /\ req[Startup] = Started("part_003:184", TRUE)
    /\ NoneInFlight
    /\ resp.op # "none"
    /\ pool = 0

====
